---- MODULE Spec2Model ----
(***************************************************************************)
(* Model of parse.Input (input.go): a cursor over an in-memory byte buffer *)
(* that ends in a NULL byte, with lookahead, selection, rune decoding and  *)
(* line/column tracking.                                                   *)
(*                                                                         *)
(* Bytes are the integers 0..255.  Go slices are 0-based, TLA+ sequences   *)
(* 1-based: Go's b[i] is b[i+1] here and Go's b[lo:hi] is Slice(b,lo,hi).  *)
(***************************************************************************)
EXTENDS Integers, Sequences, FiniteSets, TLC

VARIABLES
    buf,          \* z.buf: the content followed by one more byte
    pos,          \* z.pos
    start,        \* z.start
    err,          \* z.err: "nil" or "load"
    restore,      \* z.restore: [armed |-> BOOLEAN, n |-> index, c |-> byte]
    line,         \* z.line
    col,          \* z.col
    lastNewline,  \* z.lastNewline
    panicked,     \* a run-time panic (index or slice out of range) has ended the program
    input,        \* how the Input was constructed: [failed, b, spare, c]
    last,         \* the last call: [op, arg, ret, e, reads]
    rewinds,      \* number of Rewind calls since construction or the last Reset
    span,         \* the bytes moved over since the selection was last collapsed
    mark          \* the mark the caller holds: Pos(), Offset() and Position() then

vars == <<buf, pos, start, err, restore, line, col, lastNewline, panicked,
          input, last, rewinds, span, mark>>

----------------------------------------------------------------------------
(* Bounds of the model *)

\* an input is the concatenation of at most MaxChunks chunks
MaxChunks == 2
\* at most MaxRewinds calls of Rewind between two Resets
MaxRewinds == 1

----------------------------------------------------------------------------
(* Bytes *)

NL == 10
CR == 13

\* the chunks inputs are built of: single bytes (a newline, a letter, a
\* continuation byte, the leading bytes of a 2-byte and of a 4-byte rune), so
\* that every byte string over them of length <= MaxChunks is an input,
\* malformed ones included, and two well-formed runes
Chunks ==
    { <<10>>, <<97>>, <<128>>, <<195>>, <<244>>,
      <<195, 166>>, <<244, 128, 128, 128>> }

\* the value of the caller's byte behind the content
OrigBytes == {97}

\* the texts of the tests, and one with a 3-byte rune
Texts ==
    { <<206, 177, 10, 206, 178, 206, 179, 10, 206, 180>>,
      <<97, 10, 195, 166, 10, 244, 128, 128, 128, 10, 98>>,
      <<97, 13, 10, 98, 10, 13, 99, 10, 10>>,
      <<97, 98, 10, 99, 100>>,
      <<65, 13, 10, 66, 195, 166, 10, 244, 128, 128, 128, 67, 13, 68, 10, 10, 69>>,
      <<226, 130, 172, 13, 97>> }

Min(a, b) == IF a < b THEN a ELSE b

\* Go's b[lo:hi]
Slice(b, lo, hi) == SubSeq(b, lo + 1, hi)

\* bytes.Count(b, []byte{c})
Count(b, c) == Cardinality({i \in 1..Len(b) : b[i] = c})

\* bytes.LastIndexByte(b, c): 0-based, -1 when absent
LastIndexByte(b, c) ==
    LET I == {i \in 1..Len(b) : b[i] = c}
    IN  IF I = {} THEN -1 ELSE (CHOOSE i \in I : \A j \in I : j <= i) - 1

----------------------------------------------------------------------------
(* unicode/utf8.RuneCount, as input.go calls it: every byte that does not  *)
(* begin a valid encoding counts as one rune of width one.                 *)

\* utf8.first[c] & 7 for c >= 0x80: the length the leading byte announces,
\* 0 for a byte that cannot lead (0x80..0xC1, 0xF5..0xFF)
FirstSize(c) ==
    IF c < 194 THEN 0
    ELSE IF c < 224 THEN 2
    ELSE IF c < 240 THEN 3
    ELSE IF c < 245 THEN 4
    ELSE 0

\* utf8.acceptRanges: the range of the second byte
AcceptLo(c) == IF c = 224 THEN 160 ELSE IF c = 240 THEN 144 ELSE 128
AcceptHi(c) == IF c = 237 THEN 159 ELSE IF c = 244 THEN 143 ELSE 191

\* the number of bytes one iteration of RuneCount's loop consumes at p[i]
RuneWidth(p, i) ==
    LET c    == p[i + 1]
        size == FirstSize(c)
    IN  IF c < 128 THEN 1
        ELSE IF size = 0 THEN 1
        ELSE IF i + size > Len(p) THEN 1
        ELSE IF p[i + 2] < AcceptLo(c) \/ AcceptHi(c) < p[i + 2] THEN 1
        ELSE IF size = 2 THEN 2
        ELSE IF p[i + 3] < 128 \/ 191 < p[i + 3] THEN 1
        ELSE IF size = 3 THEN 3
        ELSE IF p[i + 4] < 128 \/ 191 < p[i + 4] THEN 1
        ELSE 4

RECURSIVE RuneCountFrom(_, _)
RuneCountFrom(p, i) ==
    IF i >= Len(p) THEN 0 ELSE 1 + RuneCountFrom(p, i + RuneWidth(p, i))

RuneCount(p) == RuneCountFrom(p, 0)

----------------------------------------------------------------------------
(* Construction *)

nullBuffer == <<0>>

\* z.restore == nil
NilRestore == [armed |-> FALSE, n |-> 0, c |-> 0]

\* a NewInputBytes that takes over the spare byte without writing the NULL
NewInputBytesNoNull(b, spare, c) ==
    LET n == Len(b)
    IN  [ buf         |-> IF n = 0 THEN nullBuffer
                          ELSE IF spare THEN b \o <<c>> ELSE b \o <<0>>,
          pos         |-> 0,
          start       |-> 0,
          err         |-> "nil",
          restore     |-> IF n > 0 /\ spare
                          THEN [armed |-> TRUE, n |-> n, c |-> c]
                          ELSE NilRestore,
          line        |-> 1,
          col         |-> 1,
          lastNewline |-> -1 ]

\* NewInputBytes(b) where b has spare capacity (cap(b) > len(b)) or not, and
\* c is the byte b[:n+1][n] held before
NewInputBytes(b, spare, c) ==
    LET n == Len(b)
    IN  [ buf         |-> IF n = 0 THEN nullBuffer ELSE b \o <<0>>,
          pos         |-> 0,
          start       |-> 0,
          err         |-> "nil",
          restore     |-> IF n > 0 /\ spare
                          THEN [armed |-> TRUE, n |-> n, c |-> c]
                          ELSE NilRestore,
          line        |-> 1,
          col         |-> 1,
          lastNewline |-> -1 ]

\* NewInput(r) when io.ReadAll(r) fails: lastNewline keeps its zero value
NewInputFailed ==
    [ buf         |-> nullBuffer,
      pos         |-> 0,
      start       |-> 0,
      err         |-> "load",
      restore     |-> NilRestore,
      line        |-> 1,
      col         |-> 1,
      lastNewline |-> 0 ]

RECURSIVE Concats(_)
Concats(k) ==
    IF k = 0 THEN {<<>>}
    ELSE LET S == Concats(k - 1) IN S \cup {s \o c : s \in S, c \in Chunks}

Inputs == Concats(MaxChunks)

\* the ways an Input is constructed
Constructions ==
    {[failed |-> FALSE, b |-> b, spare |-> FALSE, c |-> 0] : b \in Inputs}
    \cup {[failed |-> FALSE, b |-> b, spare |-> TRUE, c |-> c] :
            b \in Inputs \ {<<>>}, c \in OrigBytes}
    \cup {[failed |-> TRUE, b |-> <<>>, spare |-> FALSE, c |-> 0]}

\* a call op(arg) that returned ret (a tuple) or the error e, having read the
\* indices reads of z.buf
Call(op, arg, ret, e, reads) ==
    [op |-> op, arg |-> arg, ret |-> ret, e |-> e, reads |-> reads]

\* span when the selection has just been collapsed; clean turns FALSE when
\* the cursor is set back by Rewind
NoSpan == [clean |-> TRUE, bytes |-> <<>>]

\* the caller holds no mark
NoMark == [set |-> FALSE, m |-> 0, off |-> 0, line |-> 0, col |-> 0]

InitFrom(S) ==
    \E k \in S :
        LET z == IF k.failed THEN NewInputFailed ELSE NewInputBytes(k.b, k.spare, k.c)
        IN  /\ buf = z.buf
            /\ pos = z.pos
            /\ start = z.start
            /\ err = z.err
            /\ restore = z.restore
            /\ line = z.line
            /\ col = z.col
            /\ lastNewline = z.lastNewline
            /\ panicked = FALSE
            /\ input = k
            /\ rewinds = 0
            /\ span = NoSpan
            /\ last = Call("New", 0, <<>>, "nil", {})
            /\ mark = NoMark

Init == InitFrom(Constructions)

----------------------------------------------------------------------------
(* Operations *)

\* z.Len()
BufLen == Len(buf) - 1

\* an index Go accepts in z.buf[i]
InBuf(i) == 0 <= i /\ i < Len(buf)

\* a call that panics ends the program; nothing else changes
Panics(op, arg, reads) ==
    /\ panicked' = TRUE
    /\ last' = Call(op, arg, <<>>, "panic", reads)
    /\ UNCHANGED <<buf, pos, start, err, restore, line, col, lastNewline,
                   input, mark, rewinds, span>>

\* a call that only returns a value
Returns(op, arg, ret, e, reads) ==
    /\ last' = Call(op, arg, ret, e, reads)
    /\ UNCHANGED <<buf, pos, start, err, restore, line, col, lastNewline,
                   panicked, input, mark, rewinds, span>>

\* a PeekErr that reports the end one byte late
PeekErrValueLate(k) ==
    IF err # "nil" THEN err
    ELSE IF Len(buf) - 1 < pos + k THEN "EOF"
    ELSE "nil"

\* the value of z.PeekErr(k)
PeekErrValue(k) ==
    IF err # "nil" THEN err
    ELSE IF Len(buf) - 1 <= pos + k THEN "EOF"
    ELSE "nil"

PeekErr(k) ==
    /\ ~panicked
    /\ Returns("PeekErr", k, <<>>, PeekErrValue(k), {})

\* the value of z.Err()
ErrValue == PeekErrValue(0)

\* the value of z.Peek(k), for an index inside the buffer
PeekValue(k) == buf[pos + k + 1]

Peek(k) ==
    /\ ~panicked
    /\ IF InBuf(pos + k)
       THEN Returns("Peek", k, <<PeekValue(k)>>, "nil", {pos + k})
       ELSE Panics("Peek", k, {pos + k})

\* a PeekRune that knows no 4-byte runes
PeekRuneSize3(k) ==
    LET c    == PeekValue(k)
        left == Len(buf) - 1 - pos
    IN  IF c < 192 \/ left < 2 THEN 1
        ELSE IF c < 224 \/ left < 3 THEN 2
        ELSE 3

\* a PeekRune that gives length 0 to a byte that cannot begin a rune
PeekRuneSizeStrict(k) ==
    LET c    == PeekValue(k)
        left == Len(buf) - 1 - pos
    IN  IF 128 <= c /\ c < 192 THEN 0
        ELSE IF c < 192 \/ left < 2 THEN 1
        ELSE IF c < 224 \/ left < 3 THEN 2
        ELSE IF c < 240 \/ left < 4 THEN 3
        ELSE 4

\* the length z.PeekRune(k) decides on, from the leading byte and from the
\* bytes left after z.pos
PeekRuneSize(k) ==
    LET c    == PeekValue(k)
        left == Len(buf) - 1 - pos
    IN  IF c < 192 \/ left < 2 THEN 1
        ELSE IF c < 224 \/ left < 3 THEN 2
        ELSE IF c < 240 \/ left < 4 THEN 3
        ELSE 4

\* the rune z.PeekRune(k) composes
PeekRuneValue(k) ==
    LET c == PeekValue(k)
        n == PeekRuneSize(k)
    IN  IF n = 1 THEN c
        ELSE IF n = 2 THEN (c % 32) * 64 + (PeekValue(k + 1) % 64)
        ELSE IF n = 3 THEN (c % 16) * 4096 + (PeekValue(k + 1) % 64) * 64
                           + (PeekValue(k + 2) % 64)
        ELSE (c % 8) * 262144 + (PeekValue(k + 1) % 64) * 4096
             + (PeekValue(k + 2) % 64) * 64 + (PeekValue(k + 3) % 64)

\* the indices z.PeekRune(k) reads, in order, up to the first one outside the
\* buffer (where the read panics)
PeekRuneReads(k) ==
    LET all == IF InBuf(pos + k)
               THEN (pos + k)..(pos + k + PeekRuneSize(k) - 1)
               ELSE {pos + k}
    IN  {i \in all : \A j \in all : j < i => InBuf(j)}

PeekRunePanics(k) == \E i \in PeekRuneReads(k) : ~InBuf(i)

PeekRune(k) ==
    /\ ~panicked
    /\ IF PeekRunePanics(k)
       THEN Panics("PeekRune", k, PeekRuneReads(k))
       ELSE Returns("PeekRune", k, <<PeekRuneValue(k), PeekRuneSize(k)>>, "nil",
                    PeekRuneReads(k))

\* a Move that clamps one byte short of the NULL
MoveEndShort(n) == Min(pos + n, Len(buf) - 2)

\* Move: end, the offset the cursor moves to
MoveEnd(n) == Min(pos + n, Len(buf) - 1)

\* Move: z.buf[z.pos:end] panics unless 0 <= z.pos <= end
MovePanics(n) == pos < 0 \/ pos > MoveEnd(n)

\* Move: the bytes moved over
MovedBytes(n) == Slice(buf, pos, MoveEnd(n))

\* a Move that takes '\r' for a line separator too
MoveLineCR(n) == line + Count(MovedBytes(n), NL) + Count(MovedBytes(n), CR)

\* Move: the line after the move
MoveLine(n) == line + Count(MovedBytes(n), NL)

\* Move: lastNewline after the move
MoveLastNewline(n) ==
    IF Count(MovedBytes(n), NL) > 0
    THEN pos + LastIndexByte(MovedBytes(n), NL)
    ELSE lastNewline

\* a Move that counts the bytes moved over, not the runes
MoveColBytes(n) ==
    IF Count(MovedBytes(n), NL) > 0
    THEN MoveEnd(n) - MoveLastNewline(n)
    ELSE col + Len(MovedBytes(n))

\* Move: the column after the move
MoveCol(n) ==
    IF Count(MovedBytes(n), NL) > 0
    THEN RuneCount(Slice(buf, MoveLastNewline(n) + 1, MoveEnd(n))) + 1
    ELSE col + RuneCount(MovedBytes(n))

\* a Move that takes a negative n for a step back
MoveBySigned(n, op, arg) ==
    IF n = 0
    THEN Returns(op, arg, <<>>, "nil", {})
    ELSE IF n < 0
    THEN /\ pos' = pos + n
         /\ last' = Call(op, arg, <<>>, "nil", {})
         /\ UNCHANGED <<buf, start, err, restore, line, col, lastNewline,
                        panicked, input, mark, rewinds, span>>
    ELSE IF MovePanics(n)
    THEN Panics(op, arg, {})
    ELSE /\ pos' = MoveEnd(n)
         /\ line' = MoveLine(n)
         /\ lastNewline' = MoveLastNewline(n)
         /\ col' = MoveCol(n)
         /\ last' = Call(op, arg, <<>>, "nil", {})
         /\ span' = IF span.clean
                    THEN [span EXCEPT !.bytes = @ \o MovedBytes(n)]
                    ELSE span
         /\ UNCHANGED <<buf, start, err, restore, panicked, input, mark,
                        rewinds>>

\* z.Move(n), called as op(arg)
MoveBy(n, op, arg) ==
    IF n <= 0
    THEN Returns(op, arg, <<>>, "nil", {})
    ELSE IF MovePanics(n)
    THEN Panics(op, arg, {})
    ELSE /\ pos' = MoveEnd(n)
         /\ line' = MoveLine(n)
         /\ lastNewline' = MoveLastNewline(n)
         /\ col' = MoveCol(n)
         /\ last' = Call(op, arg, <<>>, "nil", {})
         /\ span' = IF span.clean
                    THEN [span EXCEPT !.bytes = @ \o MovedBytes(n)]
                    ELSE span
         /\ UNCHANGED <<buf, start, err, restore, panicked, input, mark,
                        rewinds>>

Move(n) ==
    /\ ~panicked
    /\ MoveBy(n, "Move", n)

MoveRune ==
    /\ ~panicked
    /\ IF PeekRunePanics(0)
       THEN Panics("MoveRune", 0, PeekRuneReads(0))
       ELSE MoveBy(PeekRuneSize(0), "MoveRune", PeekRuneSize(0))

\* the value of z.Pos()
PosValue == pos - start

Pos ==
    /\ ~panicked
    /\ Returns("Pos", 0, <<PosValue>>, "nil", {})

\* a Rewind that takes the mark for an offset in the buffer
RewindToAbsolute(m) == m

\* Rewind: the offset the cursor is set to
RewindTo(m) == start + m

Rewind(m) ==
    /\ ~panicked
    /\ rewinds < MaxRewinds
    /\ pos' = RewindTo(m)
    /\ rewinds' = rewinds + 1
    /\ span' = [clean |-> FALSE, bytes |-> <<>>]
    /\ mark' = NoMark
    /\ last' = Call("Rewind", m, <<>>, "nil", {})
    /\ UNCHANGED <<buf, start, err, restore, line, col, lastNewline, panicked,
                   input>>

\* the caller records a mark: mark := z.Pos(); line, col := z.Position()
Mark ==
    /\ ~panicked
    /\ mark' = [set |-> TRUE, m |-> PosValue, off |-> pos,
                line |-> line, col |-> col]
    /\ last' = Call("Mark", 0, <<PosValue, line, col>>, "nil", {})
    /\ UNCHANGED <<buf, pos, start, err, restore, line, col, lastNewline,
                   panicked, input, rewinds, span>>

\* the caller moves back to its mark: z.Move(-(z.Pos() - mark))
MoveBack ==
    /\ mark.set
    /\ Move(-(PosValue - mark.m))

\* the caller rewinds to its mark: z.Rewind(mark)
RewindToMark ==
    /\ mark.set
    /\ Rewind(mark.m)

\* z.buf[z.start:z.pos:z.pos] panics unless 0 <= start <= pos <= cap(z.buf);
\* the capacity is at least the length
LexemePanics == ~(0 <= start /\ start <= pos /\ pos <= Len(buf))

\* the bytes of z.buf[z.start:z.pos:z.pos]
LexemeValue == Slice(buf, start, pos)

Lexeme ==
    /\ ~panicked
    /\ IF LexemePanics
       THEN Panics("Lexeme", 0, {})
       ELSE Returns("Lexeme", 0, LexemeValue, "nil", {})

\* Skip and Shift: the new start of the selection
SkipStart == pos

Skip ==
    /\ ~panicked
    /\ start' = SkipStart
    /\ span' = NoSpan
    /\ mark' = NoMark
    /\ last' = Call("Skip", 0, <<>>, "nil", {})
    /\ UNCHANGED <<buf, pos, err, restore, line, col, lastNewline, panicked,
                   input, rewinds>>

Shift ==
    /\ ~panicked
    /\ IF LexemePanics
       THEN Panics("Shift", 0, {})
       ELSE /\ start' = SkipStart
            /\ span' = NoSpan
            /\ mark' = NoMark
            /\ last' = Call("Shift", 0, LexemeValue, "nil", {})
            /\ UNCHANGED <<buf, pos, err, restore, line, col, lastNewline,
                           panicked, input, rewinds>>

\* a Reset that forgets lastNewline
ResetKeepsNewline ==
    /\ ~panicked
    /\ start' = 0
    /\ pos' = 0
    /\ line' = 1
    /\ col' = 1
    /\ rewinds' = 0
    /\ span' = NoSpan
    /\ mark' = NoMark
    /\ last' = Call("Reset", 0, <<>>, "nil", {})
    /\ UNCHANGED <<buf, err, restore, panicked, input, lastNewline>>

Reset ==
    /\ ~panicked
    /\ start' = 0
    /\ pos' = 0
    /\ line' = 1
    /\ col' = 1
    /\ lastNewline' = -1
    /\ rewinds' = 0
    /\ span' = NoSpan
    /\ mark' = NoMark
    /\ last' = Call("Reset", 0, <<>>, "nil", {})
    /\ UNCHANGED <<buf, err, restore, panicked, input>>

\* a restore that writes the byte one index early, b[n-1] = c
RestoredEarly == [buf EXCEPT ![restore.n] = restore.c]

\* Restore: the buffer after z.restore() has run, b[n] = c
Restored == [buf EXCEPT ![restore.n + 1] = restore.c]

\* a Restore that does not clear z.restore
RestoreStaysArmed ==
    /\ ~panicked
    /\ buf' = IF restore.armed THEN Restored ELSE buf
    /\ last' = Call("Restore", 0, <<>>, "nil", {})
    /\ UNCHANGED <<pos, start, err, restore, line, col, lastNewline, panicked,
                   input, mark, rewinds, span>>

Restore ==
    /\ ~panicked
    /\ buf' = IF restore.armed THEN Restored ELSE buf
    /\ restore' = NilRestore
    /\ last' = Call("Restore", 0, <<>>, "nil", {})
    /\ UNCHANGED <<pos, start, err, line, col, lastNewline, panicked, input,
                   mark,
                   rewinds, span>>

\* the values the caller stores in its byte
StoreBytes == {0, 1}

\* the caller, having called Restore, stores v in its byte behind the content:
\* b[n] = v, where z.buf is b[:n+1]
CallerStore(v) ==
    /\ ~panicked
    /\ input.spare /\ Len(input.b) > 0 /\ ~restore.armed
    /\ buf' = [buf EXCEPT ![Len(input.b) + 1] = v]
    /\ last' = Call("Store", v, <<>>, "nil", {})
    /\ UNCHANGED <<pos, start, err, restore, line, col, lastNewline, panicked,
                   input, mark, rewinds, span>>

\* PositionAt: the offset after clamping
ClampOffset(offset) == IF offset > Len(buf) THEN Len(buf) ELSE offset

\* a PositionAt that leaves the last newline out of the line count
PositionAtLineOff(offset) ==
    LET o  == ClampOffset(offset)
        ln == LastIndexByte(Slice(buf, 0, o), NL)
    IN  << Count(Slice(buf, 0, ln), NL) + 1,
           RuneCount(Slice(buf, ln + 1, o)) + 1 >>

\* z.PositionAt(offset): <<line, col>>
PositionAtValue(offset) ==
    LET o  == ClampOffset(offset)
        ln == LastIndexByte(Slice(buf, 0, o), NL)
    IN  << Count(Slice(buf, 0, ln + 1), NL) + 1,
           RuneCount(Slice(buf, ln + 1, o)) + 1 >>

PositionAt(offset) ==
    /\ ~panicked
    /\ Returns("PositionAt", offset, PositionAtValue(offset), "nil", {})

\* z.Position(): <<line, col>>
PositionValue == <<line, col>>

----------------------------------------------------------------------------
(* The arguments the calls are made with *)

MoveArgs == -1..(BufLen + 1)
PeekArgs == 0..(BufLen + 1)
OffsetArgs == 0..(BufLen + 3)
\* marks, in range and out of range by one on either side
RewindArgs == {m \in -(BufLen + 2)..(BufLen + 2) :
                 -1 <= start + m /\ start + m <= BufLen + 1}

\* the marks Pos() can have returned since start last changed
PosMarks == {m \in 0..BufLen : start + m <= BufLen}

\* the calls that change the Input
Mutate ==
    \/ \E n \in MoveArgs : Move(n)
    \/ MoveRune
    \/ \E m \in RewindArgs : Rewind(m)
    \/ Skip
    \/ Shift
    \/ Reset
    \/ Restore

\* The lookups Peek, PeekRune, PeekErr and PositionAt change no field of the
\* Input, so the states of the Input Spec reaches are all there are; SpecPeek
\* and SpecAt add the lookups to callers that move, rewind, reset and restore.
Next ==
    \/ Mutate
    \/ Pos
    \/ Lexeme

NextPeek ==
    \/ \E n \in MoveArgs : Move(n)
    \/ MoveRune
    \/ \E m \in RewindArgs : Rewind(m)
    \/ Reset
    \/ Restore
    \/ \E k \in PeekArgs : Peek(k)
    \/ \E k \in PeekArgs : PeekRune(k)
    \/ \E k \in PeekArgs : PeekErr(k)

NextAt ==
    \/ \E n \in MoveArgs : Move(n)
    \/ MoveRune
    \/ \E m \in RewindArgs : Rewind(m)
    \/ Reset
    \/ Restore
    \/ \E o \in OffsetArgs : PositionAt(o)

\* a forward pass: no Rewind
NextFwd ==
    \/ \E n \in MoveArgs : Move(n)
    \/ MoveRune
    \/ Pos
    \/ Lexeme
    \/ Skip
    \/ Shift
    \/ Reset

\* NewInputString(s) of a text of the tests
TextConstructions ==
    {[failed |-> FALSE, b |-> b, spare |-> FALSE, c |-> 0] : b \in Texts}

InitFwd == InitFrom(Constructions \cup TextConstructions)

\* what the caller's byte behind the content may have held before
\* construction
SpareBytes == OrigBytes \cup {0, 255}

\* the slices NewInputBytes is given where the caller's byte is followed:
\* short ones, with and without spare capacity, the empty one included
SpareInputs == Concats(MaxChunks - 1)

SpareConstructions ==
    {[failed |-> FALSE, b |-> b, spare |-> FALSE, c |-> 0] : b \in SpareInputs}
    \cup {[failed |-> FALSE, b |-> b, spare |-> TRUE, c |-> c] :
            b \in SpareInputs, c \in SpareBytes}
    \cup {[failed |-> TRUE, b |-> <<>>, spare |-> FALSE, c |-> 0]}

InitRestore == InitFrom(SpareConstructions)

\* the caller's byte: every call that changes the Input, Peek, and the
\* caller's own stores once it has the byte back
NextRestore ==
    \/ Mutate
    \/ \E k \in PeekArgs : Peek(k)
    \/ \E v \in StoreBytes : CallerStore(v)

\* the text of TestInputPositionMoveAndRewind, "\u03b1\n\u03b2\u03b3\n\u03b4"
RewindText == <<206, 177, NL, 206, 178, 206, 179, NL, 206, 180>>

InitMark ==
    InitFrom(Constructions
             \cup {[failed |-> FALSE, b |-> RewindText, spare |-> FALSE, c |-> 0]})

\* a caller that records a mark, advances and goes back to the mark
NextMark ==
    \/ \E n \in MoveArgs : Move(n)
    \/ MoveRune
    \/ Mark
    \/ MoveBack
    \/ RewindToMark
    \/ Skip
    \/ Reset

\* a caller that rewinds only to marks it got from Pos()
NextPos ==
    \/ \E n \in MoveArgs : Move(n)
    \/ MoveRune
    \/ Skip
    \/ Shift
    \/ Lexeme
    \/ Pos
    \/ Reset
    \/ \E m \in PosMarks : Rewind(m)

\* the consuming loop, for z.Err() == nil { z.MoveRune() }, or with a
\* z.Move(n), n >= 1, for its body
LoopStep ==
    /\ ErrValue = "nil"
    /\ \/ MoveRune
       \/ \E n \in 1..(BufLen + 1) : Move(n)

\* calls of MoveRune and Move after the loop has ended
AfterLoop ==
    /\ ErrValue # "nil"
    /\ \/ MoveRune
       \/ \E n \in 1..(BufLen + 1) : Move(n)

NextLoop ==
    \/ LoopStep
    \/ AfterLoop

Spec == Init /\ [][Next]_vars
\* the loop runs on while its condition holds
SpecLoop == InitFwd /\ [][NextLoop]_vars /\ WF_vars(LoopStep)
SpecPos == Init /\ [][NextPos]_vars
SpecMark == InitMark /\ [][NextMark]_vars
SpecRestore == InitRestore /\ [][NextRestore]_vars
SpecPeek == Init /\ [][NextPeek]_vars
SpecAt == Init /\ [][NextAt]_vars
SpecFwd == InitFwd /\ [][NextFwd]_vars

----------------------------------------------------------------------------
(* Properties *)

\* the cursor of a freshly constructed or Reset Input
Fresh == pos = 0 /\ start = 0 /\ line = 1 /\ col = 1 /\ lastNewline = -1

\* C1: from a fresh or Reset cursor, a single Move(o) with 0 <= o < Len()
\* leaves Position() equal to PositionAt(o).
C1_MoveAgreesWithPositionAt ==
    [][\A o \in 0..(BufLen - 1) :
          (Fresh /\ last'.op = "Move" /\ last'.arg = o)
              => PositionValue' = PositionAtValue(o)']_vars

\* a single Move from the fresh cursor into the middle of a rune on line 2
C1_Witness ==
    /\ last.op = "Move" /\ last.arg = pos /\ last.arg < BufLen
    /\ rewinds = 0 /\ start = 0
    /\ line = 2 /\ col = 2 /\ pos = 2 /\ buf[pos] = 195

\* C2: after any sequence of forward Moves from a fresh or Reset cursor
\* (steps of any size, also ones that end inside a multi-byte sequence),
\* Position() equals PositionAt(Offset()).
C2_IncrementalEqualsScan ==
    (rewinds = 0 /\ ~panicked) => PositionValue = PositionAtValue(pos)

\* Restore has not run: with spare capacity it is still armed; without, there
\* is nothing it restores
Unrestored == input.spare => restore.armed

\* C3: for every way of constructing an Input, until Restore runs the buffer
\* holds the content and one more byte, which is 0; so wherever the cursor is
\* with pos <= Len(), Peek(Len() - pos) reads inside the buffer and returns 0.
C3_SentinelSafety ==
    Unrestored =>
        /\ BufLen = Len(input.b)
        /\ Len(buf) = Len(input.b) + 1
        /\ buf[BufLen + 1] = 0
        /\ pos <= BufLen => /\ InBuf(pos + (BufLen - pos))
                            /\ PeekValue(BufLen - pos) = 0
        /\ (last.op = "Peek" /\ pos + last.arg = BufLen)
               => /\ last.e = "nil"
                  /\ last.ret = <<0>>
                  /\ \A i \in last.reads : InBuf(i)

\* Peek at the NULL from inside a buffer that took over the caller's byte
C3_Witness ==
    /\ last.op = "Peek" /\ last.arg > 0 /\ pos > 0 /\ pos + last.arg = BufLen
    /\ input.spare /\ restore.armed /\ restore.c # 0
    /\ last.ret = <<0>>

\* C4: with pos <= Len() and pos + offset <= Len(), every index
\* PeekRune(offset) reads is <= Len() and the length it returns is in 1..4.
C4_PeekRuneInBounds ==
    (last.op = "PeekRune" /\ pos <= BufLen /\ last.arg >= 0
        /\ pos + last.arg <= BufLen)
        => /\ \A i \in last.reads : i <= BufLen
           /\ last.e = "nil" => last.ret[2] \in 1..4

\* C5: in any state with start <= pos, Shift() returns buf[start..pos) and
\* leaves start = pos with pos unchanged; Lexeme() returns the same bytes and
\* changes nothing; Skip() then Shift() returns the empty selection; and after
\* Moves alone since the selection was collapsed, Shift() returns the bytes
\* those Moves spanned.
C5_Selection ==
    [][/\ (last'.op = "Shift" /\ start <= pos)
            => /\ last'.e = "nil"
               /\ last'.ret = Slice(buf, start, pos)
               /\ start' = pos
               /\ pos' = pos
       /\ (last'.op = "Lexeme" /\ start <= pos)
            => /\ last'.e = "nil"
               /\ last'.ret = Slice(buf, start, pos)
               /\ UNCHANGED <<buf, pos, start, err, restore, line, col, lastNewline>>
       /\ (last.op = "Skip" /\ last'.op = "Shift")
            => last'.e = "nil" /\ last'.ret = <<>>
       /\ (last'.op = "Shift" /\ span.clean)
            => last'.e = "nil" /\ last'.ret = span.bytes]_vars

\* C5 where start and pos are indices of the buffer, 0 <= start <= pos <=
\* len(z.buf): what the code does once Rewind is kept off negative offsets.
C5_SelectionInRange ==
    [][(0 <= start /\ start <= pos /\ pos <= Len(buf)) =>
        /\ last'.op = "Shift"
            => /\ last'.e = "nil"
               /\ last'.ret = Slice(buf, start, pos)
               /\ start' = pos
               /\ pos' = pos
        /\ last'.op = "Lexeme"
            => /\ last'.e = "nil"
               /\ last'.ret = Slice(buf, start, pos)
               /\ UNCHANGED <<buf, pos, start, err, restore, line, col, lastNewline>>
        /\ (last.op = "Skip" /\ last'.op = "Shift")
            => last'.e = "nil" /\ last'.ret = <<>>
        /\ (last'.op = "Shift" /\ span.clean)
            => last'.e = "nil" /\ last'.ret = span.bytes]_vars

\* a Shift that returns the two bytes two Moves spanned since a Skip
C5_Witness ==
    /\ last.op = "Shift" /\ last.e = "nil" /\ Len(last.ret) = 2
    /\ start = pos /\ pos = 3 /\ rewinds = 0

\* the text of TestInputPositionNewlinesVariants, "a\r\nb\n\rc\n\n"
NewlinesText == <<97, CR, NL, 98, NL, CR, 99, NL, NL>>

\* <<line, col>> at each offset 0..9 of NewlinesText
NewlinesTrace ==
    << <<1, 1>>, <<1, 2>>, <<1, 3>>, <<2, 1>>, <<2, 2>>,
       <<3, 1>>, <<3, 2>>, <<3, 3>>, <<4, 1>>, <<5, 1>> >>

\* C6: a Move(n), n >= 1, from offset p adds to line the number of '\n' in
\* buf[p .. min(p+n, Len())) and nothing else, leaves col = 1 when the last
\* byte moved over is '\n', and over a '\r' leaves line as it is and advances
\* col by 1; single-byte Moves over "a\r\nb\n\rc\n\n" go through NewlinesTrace.
C6_OnlyNewlineSeparates ==
    [][\A n \in 1..(BufLen + 1) :
          (last'.op = "Move" /\ last'.arg = n) =>
              LET moved == Slice(buf, pos, Min(pos + n, BufLen))
                  nls   == {i \in 1..Len(moved) : moved[i] = NL}
              IN  /\ line' = line + Cardinality(nls)
                  /\ (moved # <<>> /\ moved[Len(moved)] = NL) => col' = 1
                  /\ moved = <<CR>> => (line' = line /\ col' = col + 1)
                  /\ (nls = {} /\ \E i \in 1..Len(moved) : moved[i] = CR)
                         => (line' = line /\ col' > col)
                  /\ (input.b = NewlinesText /\ n = 1 /\ pos < BufLen
                        /\ PositionValue = NewlinesTrace[pos + 1])
                         => PositionValue' = NewlinesTrace[pos' + 1]]_vars

\* the end of the single-byte walk over NewlinesText
C6_Witness ==
    /\ input.b = NewlinesText /\ last.op = "Move" /\ last.arg = 1
    /\ pos = 9 /\ PositionValue = <<5, 1>>

\* the offsets at which utf8 decoding of b starts a rune, and Len(b)
RECURSIVE BoundariesFrom(_, _)
BoundariesFrom(b, i) ==
    IF i >= Len(b) THEN {Len(b)}
    ELSE {i} \cup BoundariesFrom(b, i + RuneWidth(b, i))

Boundaries(b) == BoundariesFrom(b, 0)

\* b is well-formed UTF-8: every rune decodes without error
WellFormed(b) ==
    \A i \in Boundaries(b) \ {Len(b)} : b[i + 1] < 128 \/ RuneWidth(b, i) > 1

\* C7: in well-formed UTF-8, with the cursor on a rune boundary before the
\* end, MoveRune() over a rune other than '\n' advances pos by the rune's
\* length in bytes (1..4), adds exactly 1 to col and leaves line unchanged.
C7_MoveRuneCountsRunes ==
    [][(/\ last'.op = "MoveRune"
        /\ WellFormed(input.b)
        /\ pos \in Boundaries(input.b)
        /\ pos < BufLen
        /\ buf[pos + 1] # NL)
          => /\ pos' = pos + RuneWidth(input.b, pos)
             /\ pos' - pos \in 1..4
             /\ col' = col + 1
             /\ line' = line]_vars

\* MoveRune over the 4-byte rune of "a\næ\n\U00100000\nb"
C7_Witness ==
    /\ last.op = "MoveRune" /\ last.arg = 4
    /\ WellFormed(input.b) /\ Len(input.b) = 11
    /\ pos = 9 /\ PositionValue = <<3, 2>>

C9_PositionAtClampsToLen ==
    (last.op = "PositionAt" /\ last.arg > BufLen)
        => last.ret = PositionAtValue(BufLen)

\* line and column of offset o in content b, counted from the definition:
\* the number of '\n' in b[0..o), and the runes after the last of them
ScanPosition(b, o) ==
    LET nls == {i \in 1..o : b[i] = NL}
        k   == IF nls = {} THEN -1
               ELSE (CHOOSE i \in nls : \A j \in nls : j <= i) - 1
    IN  <<1 + Cardinality(nls), 1 + RuneCount(Slice(b, k + 1, o))>>

\* the bytes of s that are no continuation bytes: in well-formed UTF-8, one
\* for each code point
LeadBytes(s) == Cardinality({i \in 1..Len(s) : s[i] < 128 \/ s[i] > 191})

\* C10: for 0 <= o <= Len(), PositionAt(o) is line 1 + the number of '\n' in
\* buf[0..o) and column 1 + the number of code points after the last of them
\* (or from 0); it depends on the content alone and changes nothing.
C10_PositionAtScan ==
    /\ [](\A o \in 0..BufLen :
            /\ PositionAtValue(o) = ScanPosition(input.b, o)
            /\ LET k == LastIndexByte(Slice(input.b, 0, o), NL)
                   s == Slice(input.b, k + 1, o)
               IN  WellFormed(s) => PositionAtValue(o)[2] = 1 + LeadBytes(s))
    /\ [][(last'.op = "PositionAt" /\ last'.arg <= BufLen)
            => /\ last'.ret = ScanPosition(input.b, last'.arg)
               /\ UNCHANGED <<buf, pos, start, err, restore, line, col,
                              lastNewline, panicked>>]_vars

\* PositionAt of an offset on the second line, away from a cursor that has
\* been rewound and reports another position
C10_Witness ==
    /\ last.op = "PositionAt" /\ last.arg <= BufLen
    /\ last.ret[1] = 2 /\ last.ret[2] = 2
    /\ pos # last.arg /\ rewinds = 1 /\ PositionValue # last.ret

\* the cursor of an Input: start, pos, line, col, lastNewline
CursorOf(z) == <<z.start, z.pos, z.line, z.col, z.lastNewline>>

Cursor == <<start, pos, line, col, lastNewline>>

\* C11: Reset from any reachable state yields start = pos = 0 (Offset() = 0,
\* Pos() = 0), line = 1, col = 1, lastNewline = -1, the cursor NewInputBytes
\* gives a new Input over the same buffer, and leaves the buffer alone; a
\* Reset of a cursor that is already reset changes nothing.
C11_ResetToFresh ==
    [][last'.op = "Reset" =>
          /\ start' = 0 /\ pos' = 0 /\ PosValue' = 0
          /\ line' = 1 /\ col' = 1 /\ lastNewline' = -1
          /\ Cursor' = CursorOf(NewInputBytes(input.b, input.spare, input.c))
          /\ PositionValue' = <<1, 1>>
          /\ UNCHANGED <<buf, err, restore>>
          /\ Fresh => UNCHANGED Cursor]_vars

\* a Reset of an Input with content whose Restore has run
C11_Witness ==
    /\ last.op = "Reset" /\ Fresh /\ PosValue = 0
    /\ BufLen >= 2 /\ input.spare /\ ~restore.armed

\* the Input took over the caller's byte behind the content: NewInputBytes(b)
\* with len(b) >= 1 and cap(b) > len(b)
TookCallersByte == ~input.failed /\ input.spare /\ Len(input.b) >= 1

\* the caller's byte b[n], the last byte of z.buf
CallersByte == buf[Len(input.b) + 1]

\* C12: for an Input constructed from n >= 1 bytes with spare capacity, the
\* caller's byte at index n holds 0 from construction until Restore() runs,
\* whatever Peek, Move, MoveRune, Rewind, Skip, Shift and Reset calls are
\* made, and the Restore() that ends that holds leaves in it the value it had
\* before construction; the content bytes at [0, n) are never modified.
C12_RestoreCorrect ==
    /\ [](/\ Slice(buf, 0, Len(input.b)) = input.b
          /\ (TookCallersByte /\ restore.armed)
                => /\ restore.n = Len(input.b)
                   /\ restore.c = input.c
                   /\ CallersByte = 0)
    /\ [][/\ (TookCallersByte /\ restore.armed /\ last'.op = "Restore")
                => /\ CallersByte' = input.c
                   /\ Len(buf') = Len(buf)
          /\ (TookCallersByte /\ restore.armed /\ last'.op # "Restore")
                => restore'.armed
          /\ Slice(buf', 0, Len(input.b)) = Slice(buf, 0, Len(input.b))]_vars

\* Restore, after the cursor was moved, shifted and rewound to the end, puts
\* back 255 behind three bytes of content
C12_Witness ==
    /\ last.op = "Restore" /\ TookCallersByte /\ ~restore.armed
    /\ input.c = 255 /\ CallersByte = 255
    /\ Len(input.b) >= 2 /\ start > 0 /\ rewinds = 1 /\ pos = BufLen

\* C19: a Restore() clears z.restore, so only the first one after
\* construction writes (the caller's byte alone); a later one writes nothing,
\* also when the caller has stored another value in its byte since; on an
\* Input built without spare capacity, from empty input or by a failed load
\* no Restore() writes; and Restore() never changes start, pos, line or col.
C19_RestoreIdempotent ==
    /\ [](restore.armed => TookCallersByte)
    /\ [][last'.op = "Restore" =>
            /\ ~restore'.armed
            /\ ~restore.armed => buf' = buf
            /\ restore.armed
                 => \A i \in 1..Len(buf) :
                       i # Len(input.b) + 1 => buf'[i] = buf[i]
            /\ ~TookCallersByte => (~restore.armed /\ buf' = buf)
            /\ UNCHANGED <<start, pos, line, col, lastNewline, err>>]_vars

\* a second Restore that leaves in place the 1 the caller stored over its 255
C19_Witness ==
    /\ last.op = "Restore" /\ TookCallersByte /\ ~restore.armed
    /\ input.c = 255 /\ CallersByte = 1 /\ pos > 0

C14_NegativeMoveRelocates ==
    [][(mark.set /\ last'.op = "Move" /\ last'.arg = -(PosValue - mark.m))
          => /\ PosValue' = mark.m
             /\ PositionValue' = <<mark.line, mark.col>>]_vars

\* C15: with a mark m = Pos() and (line, col) = Position() recorded and the
\* cursor advanced since by Move and MoveRune alone (no Skip, Shift or
\* Reset), Rewind(m) leaves Offset() at the offset of the mark and
\* Position() equal to the position recorded.
C15_RewindRestoresPosition ==
    [][(mark.set /\ last'.op = "Rewind" /\ last'.arg = mark.m)
          => /\ pos' = mark.off
             /\ PositionValue' = <<mark.line, mark.col>>]_vars

\* what Rewind to a mark does: the offset is the offset of the mark, and
\* line, col and lastNewline stay those of the place rewound from
C15_RewindKeepsPosition ==
    [][(mark.set /\ last'.op = "Rewind" /\ last'.arg = mark.m)
          => /\ pos' = mark.off
             /\ UNCHANGED <<line, col, lastNewline>>]_vars

\* C16: for any m, after Rewind(m) the offset is max(0, min(start + m, L));
\* with start + m < 0 that is Offset() = 0 and Position() = (1, 1), also when
\* start > 0, and with start + m > L Position() = PositionAt(Len()).
C16_RewindClamps ==
    [][last'.op = "Rewind" =>
          LET t == start + last'.arg
          IN  /\ pos' = IF t < 0 THEN 0 ELSE Min(t, BufLen)
              /\ t < 0 => (pos' = 0 /\ PositionValue' = <<1, 1>>)
              /\ t > BufLen => PositionValue' = PositionAtValue(BufLen)']_vars

\* what PeekErr(k) is to return
PeekErrOutcome(k) ==
    IF input.failed THEN "load"
    ELSE IF pos + k >= BufLen THEN "EOF"
    ELSE "nil"

\* C17: on a failed load Len() = 0 and PeekErr(k) is the load error for every
\* k, whatever has been called since; otherwise PeekErr(k), k >= 0, is EOF
\* exactly when pos + k >= L and no error exactly when pos + k < L; Err() is
\* PeekErr(0); an Input over empty content reports EOF from the start.
C17_PeekErrOutcome ==
    /\ input.failed => BufLen = 0
    /\ \A k \in PeekArgs : PeekErrValue(k) = PeekErrOutcome(k)
    /\ last.op = "PeekErr" => last.e = PeekErrOutcome(last.arg)
    /\ ErrValue = PeekErrOutcome(0)
    /\ (last.op = "New" /\ ~input.failed /\ input.b = <<>>) => ErrValue = "EOF"

\* PeekErr reports EOF for the offset of the NULL, ahead of the cursor
C17_Witness ==
    /\ last.op = "PeekErr" /\ last.e = "EOF" /\ ~input.failed
    /\ pos > 0 /\ last.arg > 0 /\ pos + last.arg = BufLen
    /\ PeekErrValue(last.arg - 1) = "nil"

\* C18: in every state reached by Move, MoveRune, Skip, Shift, Lexeme, Reset
\* and Rewind(m) with 0 <= m and start + m <= L (the marks Pos() returns
\* while start stays), 0 <= start <= pos <= L; so Pos() >= 0, and Lexeme()
\* and Shift() slice inside the buffer and do not panic.
C18_CursorInvariant ==
    /\ 0 <= start /\ start <= pos /\ pos <= BufLen
    /\ PosValue >= 0
    /\ PosValue \in PosMarks
    /\ ~LexemePanics
    /\ ~panicked
    /\ last.op \in {"Lexeme", "Shift"} => last.e = "nil"
    /\ last.op = "Pos" => (last.ret[1] >= 0 /\ start + last.ret[1] <= BufLen)

\* a Rewind to the mark of the end of the input, taken behind a collapsed
\* selection
C18_Witness ==
    /\ last.op = "Rewind" /\ last.arg > 0 /\ rewinds = 1
    /\ start > 0 /\ pos = BufLen /\ last.arg = BufLen - start
    /\ line = 2

\* C20: for every content, well-formed or not, while Err() is nil a
\* MoveRune() or a Move(n), n >= 1, moves pos forward by at least one byte
\* and not beyond L, without a panic; so the loop
\* for z.Err() == nil { z.MoveRune() }, started at offset 0 with no Rewind or
\* Reset, makes at most L iterations and reaches pos = L with Err() = EOF;
\* from then on MoveRune and Move leave pos = L. (After a failed load Err()
\* is not nil and the loop does not iterate.)
C20_LoopTerminates ==
    /\ [][/\ (ErrValue = "nil" /\ last'.op \in {"Move", "MoveRune"})
               => /\ pos' >= pos + 1
                  /\ pos' <= BufLen
                  /\ ~panicked'
          /\ (ErrValue # "nil" /\ last'.op \in {"Move", "MoveRune"})
               => /\ pos' = pos
                  /\ ~panicked'
                  /\ ErrValue' = ErrValue]_vars
    /\ [](/\ 0 <= pos /\ pos <= BufLen
          /\ Len(span.bytes) = pos
          /\ (ErrValue # "nil") = (pos = BufLen \/ input.failed))
    /\ <>[](pos = BufLen /\ ErrValue = IF input.failed THEN "load" ELSE "EOF")

\* the loop has run over malformed bytes to the end: a 4-byte leading byte
\* followed by a continuation byte and the NULL
C20_Witness ==
    /\ last.op = "MoveRune" /\ last.arg = 2 /\ input.b = <<244, 128>>
    /\ pos = BufLen /\ ErrValue = "EOF" /\ rewinds = 0

====
